---- MODULE Spec2Model ----
(***************************************************************************)
(* A model of the Python layer of genrp (python/genrp/_genrp.pyx): the GP  *)
(* object, which wraps a C++ GaussianProcess<BandSolver> and a Kernel, and *)
(* the Solver object, which wraps a C++ BandSolver.                        *)
(*                                                                         *)
(* Floating-point values are represented by small integers: the wrapper    *)
(* only stores, copies and compares them for order.                        *)
(***************************************************************************)
EXTENDS Integers, Sequences, FiniteSets, TLC

VARIABLES
    kernel,        \* GP.kernel: the Kernel the Python object owns (line 81)
    gp_kernel,     \* the Kernel held by *GP.gp, a copy taken at construction (lines 62, 85, 150)
    _data_size,     \* GP._data_size (line 82)
    alive,         \* FALSE once an uncaught C++ exception has terminated the process
    call,          \* the most recent call on the GP and how it ended
    phase,         \* history: "new", "computed" or "stale"
    last_n,        \* history: len(x) of the most recent compute that returned normally
    calls_real,    \* history: number of add_term calls made without log_freq
    calls_complex, \* history: number of add_term calls made with log_freq
    solver,        \* the Solver object, or NoSolver when none has been constructed
    scall          \* the most recent call on the Solver class and how it ended

svars == <<solver, scall>>
vars == <<kernel, gp_kernel, _data_size, alive, call, phase, last_n, calls_real, calls_complex,
          solver, scall>>

(***************************************************************************)
(* Bounds of the model.                                                    *)
(***************************************************************************)
\* total number of kernel parameters a GP may grow to
MaxParams == 5
\* longest x, yerr, y, x1 and w in the specification Spec
MaxN == 2
\* longest x, yerr, y, x1 and w in the specification SpecCompute
MaxNC == 3
\* longest t, d and y in the specification SpecSolver
MaxNS == 3
\* longest coefficient array in the specification SpecSolver
MaxP == 1

\* the time values x and t are drawn from
Times == {0, 1, 2}
\* the parameter values written through params and gp[i]
Vals == {0, 1}
\* the parameter values passed to add_term
AddVals == {0}

\* the optional argument log_freq: None, or Some(v)
None == <<>>

Some(v) == <<v>>

RECURSIVE SeqsOfLen(_, _)
SeqsOfLen(S, n) ==
    IF n = 0 THEN {<<>>}
    ELSE {Append(s, e) : s \in SeqsOfLen(S, n - 1), e \in S}

SeqsUpTo(S, n) == UNION {SeqsOfLen(S, k) : k \in 0..n}

(***************************************************************************)
(* The C++ Kernel: an ordered list of terms.  A term is the sequence of    *)
(* its parameters: <<log_amp, log_q>> for a real term, <<log_amp, log_q,   *)
(* log_freq>> for a complex one.                                           *)
(***************************************************************************)
EmptyKernel == <<>>

KernelAddReal(k, log_amp, log_q) == Append(k, <<log_amp, log_q>>)

KernelAddComplex(k, log_amp, log_q, log_freq) == Append(k, <<log_amp, log_q, log_freq>>)

p_real(k) == Cardinality({i \in 1..Len(k) : Len(k[i]) = 2})

p_complex(k) == Cardinality({i \in 1..Len(k) : Len(k[i]) = 3})

\* GaussianProcess::size()
GPSize(k) == 2 * p_real(k) + 3 * p_complex(k)

\* GaussianProcess::get_params: the flat parameter vector, in term order
RECURSIVE GetParams(_)
GetParams(k) == IF k = <<>> THEN <<>> ELSE Head(k) \o GetParams(Tail(k))

\* GaussianProcess::set_params: the terms of k refilled from the flat vector p
RECURSIVE SetParams(_, _)
SetParams(k, p) ==
    IF k = <<>> THEN <<>>
    ELSE <<SubSeq(p, 1, Len(Head(k)))>>
         \o SetParams(Tail(k), SubSeq(p, Len(Head(k)) + 1, Len(p)))

\* GaussianProcess(Kernel kernel): the kernel is passed by value
NewGaussianProcess(k) == k

(***************************************************************************)
(* Solver: the object and the record of a call on the class.               *)
(***************************************************************************)
\* the argument d of Solver(...): a Python number, a list, or a numpy array
DiagKinds == {"scalar", "list", "ndarray"}

Diag(kind, len) == [kind |-> kind, len |-> len]

NoDiag == Diag("scalar", 0)

NoSolver == [exists |-> FALSE, N |-> 0, t |-> <<>>, p_real |-> 0, p_complex |-> 0,
             diagonal |-> 0]

SCall(op, result, t, nar, nbr, nac, nbc, d, ny, solved) ==
    [op |-> op, result |-> result, t |-> t, nar |-> nar, nbr |-> nbr, nac |-> nac,
     nbc |-> nbc, d |-> d, ny |-> ny, solved |-> solved]

(***************************************************************************)
(* GP                                                                      *)
(***************************************************************************)
\* a call and how it ended: n is the length of its first array argument; x and
\* m are the array x and the length of yerr of a compute call, when they are kept
Call(op, result, n, x, m) == [op |-> op, result |-> result, n |-> n, x |-> x, m |-> m]

\* GP.__len__
GPLen == GPSize(gp_kernel)

\* GP.computed
computed == _data_size >= 0

\* GP.params.__get__
ParamsGet == GetParams(gp_kernel)

Init ==
    /\ kernel = EmptyKernel
    /\ gp_kernel = NewGaussianProcess(EmptyKernel)
    /\ _data_size = -1
    /\ alive = TRUE
    /\ call = Call("init", "ok", 0, <<>>, 0)
    /\ phase = "new"
    /\ last_n = -1
    /\ calls_real = 0
    /\ calls_complex = 0
    /\ solver = NoSolver
    /\ scall = SCall("init", "ok", <<>>, 0, 0, 0, 0, NoDiag, 0, FALSE)

Invalidated == IF phase = "new" THEN "new" ELSE "stale"

\* ParamsSetBody with line 134 left out: a write that does not invalidate
ParamsSetBody_NoReset(op, p) ==
    IF Len(p) # GPSize(gp_kernel)
    THEN /\ call' = Call(op, "DimensionMismatch", Len(p), <<>>, 0)
         /\ UNCHANGED <<kernel, gp_kernel, _data_size, alive, phase, last_n,
                        calls_real, calls_complex>>
    ELSE /\ gp_kernel' = SetParams(gp_kernel, p)
         /\ call' = Call(op, "ok", Len(p), <<>>, 0)
         /\ phase' = Invalidated
         /\ UNCHANGED <<kernel, _data_size, alive, last_n, calls_real, calls_complex>>

\* ParamsSetBody with line 134 moved above the length check
ParamsSetBody_ResetFirst(op, p) ==
    IF Len(p) # GPSize(gp_kernel)
    THEN /\ call' = Call(op, "DimensionMismatch", Len(p), <<>>, 0)
         /\ _data_size' = -1
         /\ UNCHANGED <<kernel, gp_kernel, alive, phase, last_n,
                        calls_real, calls_complex>>
    ELSE /\ gp_kernel' = SetParams(gp_kernel, p)
         /\ _data_size' = -1
         /\ call' = Call(op, "ok", Len(p), <<>>, 0)
         /\ phase' = Invalidated
         /\ UNCHANGED <<kernel, alive, last_n, calls_real, calls_complex>>

\* GP.params.__set__, called as `op` (params assignment or the tail of __setitem__)
ParamsSetBody(op, p) ==
    IF Len(p) # GPSize(gp_kernel)
    THEN /\ call' = Call(op, "DimensionMismatch", Len(p), <<>>, 0)
         /\ UNCHANGED <<kernel, gp_kernel, _data_size, alive, phase, last_n,
                        calls_real, calls_complex>>
    ELSE /\ gp_kernel' = SetParams(gp_kernel, p)
         /\ _data_size' = -1
         /\ call' = Call(op, "ok", Len(p), <<>>, 0)
         /\ phase' = Invalidated
         /\ UNCHANGED <<kernel, alive, last_n, calls_real, calls_complex>>

ParamsSet(VS) ==
    /\ alive
    /\ \E p \in SeqsUpTo(VS, MaxParams + 1) : ParamsSetBody("params", p)
    /\ UNCHANGED svars

\* GP.__setitem__: gp[i] = value, with numpy's indexing of the params vector
SetItemBody(i, value) ==
    LET params == ParamsGet
        n == Len(params)
        pos == IF i < 0 THEN i + n ELSE i
    IN  IF pos < 0 \/ pos >= n
        THEN /\ call' = Call("setitem", "IndexError", 0, <<>>, 0)
             /\ UNCHANGED <<kernel, gp_kernel, _data_size, alive, phase, last_n,
                            calls_real, calls_complex>>
        ELSE ParamsSetBody("setitem", [params EXCEPT ![pos + 1] = value])

SetItem(VS) ==
    /\ alive
    /\ \E i \in (0 - (MaxParams + 1))..MaxParams, value \in VS : SetItemBody(i, value)
    /\ UNCHANGED svars

\* AddTermKernel with log_freq ignored: every term is added as a real term
AddTermKernel_AlwaysReal(k, log_amp, log_q, log_freq) == KernelAddReal(k, log_amp, log_q)

\* the branch of GP.add_term on log_freq (lines 145-148)
AddTermKernel(k, log_amp, log_q, log_freq) ==
    IF log_freq = None
    THEN KernelAddReal(k, log_amp, log_q)
    ELSE KernelAddComplex(k, log_amp, log_q, log_freq[1])

\* GP.add_term
AddTermBody(log_amp, log_q, log_freq) ==
    /\ kernel' = AddTermKernel(kernel, log_amp, log_q, log_freq)
    /\ gp_kernel' = NewGaussianProcess(kernel')
    /\ _data_size' = -1
    /\ call' = Call("add_term", "ok", 0, <<>>, 0)
    /\ phase' = Invalidated
    /\ calls_real' = calls_real + (IF log_freq = None THEN 1 ELSE 0)
    /\ calls_complex' = calls_complex + (IF log_freq = None THEN 0 ELSE 1)
    /\ UNCHANGED <<alive, last_n>>

AddTerm(VS) ==
    /\ alive
    /\ \E log_amp \in VS, log_q \in VS, log_freq \in {None} \cup {Some(v) : v \in VS} :
          /\ GPSize(kernel) + (IF log_freq = None THEN 2 ELSE 3) <= MaxParams
          /\ AddTermBody(log_amp, log_q, log_freq)
    /\ UNCHANGED svars

\* OrderedFrom with `<` for `<=` on line 175: equal adjacent times pass
RECURSIVE OrderedFrom_AllowsEqual(_, _)
OrderedFrom_AllowsEqual(x, i) ==
    IF i >= Len(x) - 1 THEN TRUE
    ELSE IF x[i + 2] < x[i + 1] THEN FALSE
    ELSE OrderedFrom_AllowsEqual(x, i + 1)

\* the loop of GP.compute over adjacent times (lines 174-176), from index i (0-based)
RECURSIVE OrderedFrom(_, _)
OrderedFrom(x, i) ==
    IF i >= Len(x) - 1 THEN TRUE
    ELSE IF x[i + 2] <= x[i + 1] THEN FALSE
    ELSE OrderedFrom(x, i + 1)

\* the validation of GP.compute (lines 171-176)
ComputeCheck(x, nyerr) ==
    IF Len(x) # nyerr THEN "DimensionMismatch"
    ELSE IF ~OrderedFrom(x, 0) THEN "UnsortedInput"
    ELSE "ok"

\* how GaussianProcess::compute ends: it returns, or it throws on a failed
\* factorization; compute is declared without `except +` (line 66), so a C++
\* exception is not translated and terminates the process
FactorOutcomes == {"returns", "throws"}

\* GP.compute; keep says whether the call record keeps x and len(yerr)
ComputeBody(x, nyerr, keep) ==
    LET check == ComputeCheck(x, nyerr)
        kx == IF keep THEN x ELSE <<>>
        km == IF keep THEN nyerr ELSE 0
    IN  IF check # "ok"
        THEN /\ call' = Call("compute", check, Len(x), kx, km)
             /\ UNCHANGED <<kernel, gp_kernel, _data_size, alive, phase, last_n,
                            calls_real, calls_complex>>
        ELSE /\ _data_size' = Len(x)
             /\ \E outcome \in FactorOutcomes :
                   IF outcome = "returns"
                   THEN /\ call' = Call("compute", "ok", Len(x), kx, km)
                        /\ phase' = "computed"
                        /\ last_n' = Len(x)
                        /\ UNCHANGED alive
                   ELSE /\ call' = Call("compute", "terminated", Len(x), kx, km)
                        /\ alive' = FALSE
                        /\ UNCHANGED <<phase, last_n>>
             /\ UNCHANGED <<kernel, gp_kernel, calls_real, calls_complex>>

Compute(maxn, keep) ==
    /\ alive
    /\ \E x \in SeqsUpTo(Times, maxn), nyerr \in 0..maxn : ComputeBody(x, nyerr, keep)
    /\ UNCHANGED svars

\* LogLikelihoodCheck with the two checks of lines 181-184 in the other order
LogLikelihoodCheck_LengthFirst(ny) ==
    IF ny # _data_size THEN "DimensionMismatch"
    ELSE IF ~computed THEN "NotComputed"
    ELSE "ok"

\* the checks of GP.log_likelihood (lines 181-184)
LogLikelihoodCheck(ny) ==
    IF ~computed THEN "NotComputed"
    ELSE IF ny # _data_size THEN "DimensionMismatch"
    ELSE "ok"

\* GP.log_likelihood
LogLikelihoodBody(ny) ==
    /\ call' = Call("log_likelihood", LogLikelihoodCheck(ny), ny, <<>>, 0)
    /\ UNCHANGED <<kernel, gp_kernel, _data_size, alive, phase, last_n,
                   calls_real, calls_complex>>

LogLikelihood(maxn) ==
    /\ alive
    /\ \E ny \in 0..maxn : LogLikelihoodBody(ny)
    /\ UNCHANGED svars

\* GetMatrixBody that invalidates the process, as a parameter write does
GetMatrixBody_Invalidates(n1) ==
    /\ call' = Call("get_matrix", "ok", n1, <<>>, 0)
    /\ _data_size' = -1
    /\ UNCHANGED <<kernel, gp_kernel, alive, phase, last_n, calls_real, calls_complex>>

\* GP.get_matrix on x1 of length n1 (x2 given or not): kernel_value at every lag
GetMatrixBody(n1) ==
    /\ call' = Call("get_matrix", "ok", n1, <<>>, 0)
    /\ UNCHANGED <<kernel, gp_kernel, _data_size, alive, phase, last_n,
                   calls_real, calls_complex>>

GetMatrix(maxn) ==
    /\ alive
    /\ \E n1 \in 0..maxn : GetMatrixBody(n1)
    /\ UNCHANGED svars

\* GP.get_psd on w of length n: kernel_psd at every frequency
GetPsdBody(n) ==
    /\ call' = Call("get_psd", "ok", n, <<>>, 0)
    /\ UNCHANGED <<kernel, gp_kernel, _data_size, alive, phase, last_n,
                   calls_real, calls_complex>>

GetPsd(maxn) ==
    /\ alive
    /\ \E n \in 0..maxn : GetPsdBody(n)
    /\ UNCHANGED svars

(***************************************************************************)
(* Solver                                                                  *)
(***************************************************************************)
\* np.all(np.diff(t) > 0.0) (line 226)
TimesSorted(t) == \A i \in 1..(Len(t) - 1) : t[i + 1] - t[i] > 0

\* float(d) (line 246): it converts a number and a numpy array of one element,
\* and raises TypeError on a list and on a numpy array of any other size
FloatAccepts(d) == d.kind = "scalar" \/ (d.kind = "ndarray" /\ d.len = 1)

\* the checks of Solver.__cinit__ in the order the code makes them (lines 226-250)
SolverCheck(t, nar, nbr, nac, nbc, d) ==
    IF ~TimesSorted(t) THEN "UnsortedInput"
    ELSE IF nar # nbr THEN "DimensionMismatch"
    ELSE IF nac # nbc THEN "DimensionMismatch"
    ELSE IF ~FloatAccepts(d) /\ d.len # Len(t) THEN "DiagonalMismatch"
    ELSE "ok"

\* the number of entries of self.diagonal (lines 245-253)
StoredDiagonal(t, d) == IF FloatAccepts(d) THEN Len(t) ELSE d.len

\* Solver.__cinit__
SolverInitBody(t, nar, nbr, nac, nbc, d) ==
    LET check == SolverCheck(t, nar, nbr, nac, nbc, d)
    IN  IF check # "ok"
        THEN /\ scall' = SCall("Solver", check, t, nar, nbr, nac, nbc, d, 0, FALSE)
             /\ solver' = NoSolver
             /\ UNCHANGED alive
        ELSE \E outcome \in FactorOutcomes :
                IF outcome = "returns"
                THEN /\ scall' = SCall("Solver", "ok", t, nar, nbr, nac, nbc, d, 0, FALSE)
                     /\ solver' = [exists |-> TRUE, N |-> Len(t), t |-> t,
                                   p_real |-> nar, p_complex |-> nac,
                                   diagonal |-> StoredDiagonal(t, d)]
                     /\ UNCHANGED alive
                ELSE /\ scall' = SCall("Solver", "terminated", t, nar, nbr, nac, nbc, d,
                                       0, FALSE)
                     /\ solver' = NoSolver
                     /\ alive' = FALSE

\* __cinit__ runs once, when the object is created
SolverInit ==
    /\ alive
    /\ scall.op = "init"
    /\ \E t \in SeqsUpTo(Times, MaxNS), nar \in 0..MaxP, nbr \in 0..MaxP,
          nac \in 0..MaxP, nbc \in 0..MaxP, kind \in DiagKinds, len \in 0..MaxNS :
          /\ kind = "scalar" => len = 0
          /\ SolverInitBody(t, nar, nbr, nac, nbc, Diag(kind, len))
    /\ UNCHANGED <<kernel, gp_kernel, _data_size, call, phase, last_n, calls_real,
                   calls_complex>>

\* the check of Solver.apply_inverse (lines 277-278)
ApplyInverseCheck(ny) == IF ny # solver.N THEN "DimensionMismatch" ELSE "ok"

\* Solver.apply_inverse: solved says whether BandSolver::solve was called
ApplyInverseBody(ny, in_place) ==
    LET check == ApplyInverseCheck(ny)
    IN  /\ scall' = SCall("apply_inverse", check, <<>>, 0, 0, 0, 0, NoDiag, ny, check = "ok")
        /\ UNCHANGED <<solver, alive>>

ApplyInverse ==
    /\ alive
    /\ solver.exists
    /\ \E ny \in 0..MaxNS, in_place \in BOOLEAN : ApplyInverseBody(ny, in_place)
    /\ UNCHANGED <<kernel, gp_kernel, _data_size, call, phase, last_n, calls_real,
                   calls_complex>>

NextSolver ==
    \/ SolverInit
    \/ ApplyInverse

SpecSolver == Init /\ [][NextSolver]_vars

Next ==
    \/ ParamsSet(Vals)
    \/ SetItem(Vals)
    \/ AddTerm(AddVals)
    \/ Compute(MaxN, FALSE)
    \/ LogLikelihood(MaxN)
    \/ GetMatrix(MaxN)
    \/ GetPsd(MaxN)

Spec == Init /\ [][Next]_vars

NextCompute ==
    \/ ParamsSet(AddVals)
    \/ SetItem(AddVals)
    \/ AddTerm(AddVals)
    \/ Compute(MaxNC, TRUE)
    \/ LogLikelihood(MaxNC)
    \/ GetMatrix(MaxNC)
    \/ GetPsd(MaxNC)

SpecCompute == Init /\ [][NextCompute]_vars
(***************************************************************************)
(* Properties                                                              *)
(***************************************************************************)
\* C1: once a parameter write or an add_term has succeeded after a compute and
\* no compute has succeeded since (phase "stale"), a log_likelihood call fails
\* with NotComputed.
C1_StaleLogLikelihoodNotComputed ==
    (call.op = "log_likelihood" /\ phase = "stale") => call.result = "NotComputed"

C1_Witness ==
    /\ call.op = "log_likelihood"
    /\ phase = "stale"
    /\ call.result = "NotComputed"
    /\ gp_kernel = kernel

\* C2: after a compute call that failed, the process is not computed, whether or
\* not it was computed before the call.
C2_FailedComputeNotComputed ==
    (alive /\ call.op = "compute" /\ call.result # "ok") => ~computed

C4_LogLikelihoodOutcome ==
    [][call'.op = "log_likelihood" =>
          /\ call'.result = (IF phase # "computed" THEN "NotComputed"
                             ELSE IF call'.n # last_n THEN "DimensionMismatch"
                             ELSE "ok")
          /\ _data_size' = _data_size
          /\ gp_kernel' = gp_kernel
          /\ kernel' = kernel]_vars

C4_Witness ==
    /\ call.op = "log_likelihood"
    /\ call.result = "DimensionMismatch"
    /\ phase = "computed"
    /\ call.n # last_n

\* C5: assigning params a vector of the wrong length fails with
\* DimensionMismatch and changes neither the parameters nor the computed state;
\* an assignment of the right length succeeds and marks the process not
\* computed.
C5_ParamsAssignment ==
    [][call'.op = "params" =>
          IF call'.n # GPLen
          THEN /\ call'.result = "DimensionMismatch"
               /\ gp_kernel' = gp_kernel
               /\ kernel' = kernel
               /\ _data_size' = _data_size
          ELSE /\ call'.result = "ok"
               /\ Len(GetParams(gp_kernel')) = call'.n
               /\ _data_size' = -1]_vars

C5_Witness ==
    /\ call.op = "params"
    /\ call.result = "DimensionMismatch"
    /\ computed
    /\ GPLen > 0

\* C6: a new GP has length 0; len(gp), which is also the length of gp.params, is
\* always 2 * (add_term calls without log_freq) + 3 * (add_term calls with
\* log_freq); and only add_term changes it, by 2 or by 3.
C6_ParameterCount ==
    /\ GPLen = 0
    /\ [](GPLen = 2 * calls_real + 3 * calls_complex /\ Len(ParamsGet) = GPLen)
    /\ [][GPLen' # GPLen => (call'.op = "add_term" /\ GPLen' - GPLen \in {2, 3})]_vars

C6_Witness ==
    /\ calls_real > 0
    /\ calls_complex > 0
    /\ GPLen = 5
    /\ call.op \in {"setitem", "compute"}
    /\ call.result = "ok"

\* C7: get_matrix and get_psd can be called in every state of the process,
\* computed or not, succeed, and change neither the computed flag, the recorded
\* dataset size nor the parameters.
C7_KernelEvaluationFrame ==
    /\ [](alive => (ENABLED GetMatrix(MaxN) /\ ENABLED GetPsd(MaxN)))
    /\ [][call'.op \in {"get_matrix", "get_psd"} =>
             /\ call'.result = "ok"
             /\ _data_size' = _data_size
             /\ gp_kernel' = gp_kernel
             /\ kernel' = kernel]_vars

C7_Witness ==
    /\ call.op = "get_psd"
    /\ call.result = "ok"
    /\ phase = "stale"
    /\ ~computed
    /\ GPLen > 0

\* C8: a Solver exists only if the times are strictly increasing, the
\* coefficient arrays pair up in length and a per-point diagonal has N entries;
\* its stored diagonal has N entries; and apply_inverse(y) fails with
\* DimensionMismatch exactly when len(y) # N, without calling solve.
C8_SolverValidation ==
    /\ scall.op = "Solver" =>
          LET perPoint == scall.d.kind # "scalar"
              valid == /\ \A i \in 1..(Len(scall.t) - 1) : scall.t[i + 1] > scall.t[i]
                       /\ scall.nar = scall.nbr
                       /\ scall.nac = scall.nbc
                       /\ perPoint => scall.d.len = Len(scall.t)
          IN  solver.exists => valid
    /\ solver.exists => solver.diagonal = solver.N
    /\ scall.op = "apply_inverse" =>
          /\ scall.result = "DimensionMismatch" <=> scall.ny # solver.N
          /\ scall.result = "DimensionMismatch" => ~scall.solved

\* C10: add_term leaves the parameter values of every existing term as they
\* were immediately before the call.
C10_AddTermKeepsExistingParams ==
    [][call'.op = "add_term" =>
          \A i \in 1..Len(gp_kernel) : gp_kernel'[i] = gp_kernel[i]]_vars
====
